---- MODULE Spec2Model ----
(***************************************************************************)
(* A model of cloudtile's conversion-settings store                        *)
(* (cloudtile/tippecanoe.py), of the file kinds and their convert steps    *)
(* (cloudtile/geofile.py) and of the conversion orchestrator               *)
(* (cloudtile/converter.py).                                               *)
(*                                                                         *)
(* Python values are tagged records ([int |-> n], [bool |-> b],            *)
(* [str |-> s]) so that values of different Python types can live in one  *)
(* mapping.  Setting keys and file names are sequences of string tokens,   *)
(* so that str.replace is modelled by what it does to the tokens.          *)
(***************************************************************************)
EXTENDS Integers, Sequences, FiniteSets, TLC

VARIABLES
    all_settings,   \* TippecanoeSettings._all_settings: the recognized keys
    data,           \* TippecanoeSettings.data: the ordered key -> value mapping
    last,           \* the last call made on the settings store and its outcome
    origin,         \* Converter.origin: the file the converter was built for
    remote,         \* Converter.remote
    fs,             \* the local paths that exist
    s3,             \* the file names uploaded to the object store
    events,         \* the side effects of the last converter request, in order
    outcome         \* the last converter request and how it ended

settingsVars == <<all_settings, data, last>>
converterVars == <<origin, remote, fs, s3, events, outcome>>
vars == <<all_settings, data, last, origin, remote, fs, s3, events, outcome>>

-----------------------------------------------------------------------------
(* Bounds *)

MaxZoom == 2        \* the highest zoom level a caller passes
MaxKwargs == 2      \* keyword arguments per call
MaxRequests == 1    \* conversion requests made on one Converter

-----------------------------------------------------------------------------
(* Python values *)

IntV(n) == [int |-> n]
BoolV(b) == [bool |-> b]
StrV(s) == [str |-> s]

G == StrV("g")      \* the "maximum available" sentinel of maximum-zoom

Unset == [unset |-> TRUE]       \* an attribute that was never assigned

IsInt(v) == DOMAIN v = {"int"}
IsBool(v) == DOMAIN v = {"bool"}
IsStr(v) == DOMAIN v = {"str"}

\* bool is a subclass of int in Python: True is 1 and False is 0
IsNum(v) == IsInt(v) \/ IsBool(v)
PyNum(v) == IF IsInt(v) THEN v.int ELSE IF v.bool THEN 1 ELSE 0

\* a != b
PyNe(a, b) ==
    IF IsNum(a) /\ IsNum(b) THEN PyNum(a) # PyNum(b)
    ELSE IF IsStr(a) /\ IsStr(b) THEN a.str # b.str
    ELSE TRUE

\* a < b and a > b raise TypeError between a number and a string
PyOrdered(a, b) == (IsNum(a) /\ IsNum(b)) \/ (IsStr(a) /\ IsStr(b))

\* a < b, where it is defined; the only string of the model is "g"
PyLt(a, b) == IF IsNum(a) /\ IsNum(b) THEN PyNum(a) < PyNum(b) ELSE FALSE

PyGt(a, b) == PyLt(b, a)

-----------------------------------------------------------------------------
(* Setting keys: token sequences, "minimum_zoom" is <<"minimum","_","zoom">> *)

MinZoomKey == <<"minimum", "-", "zoom">>
MaxZoomKey == <<"maximum", "-", "zoom">>
ForceKey == <<"force">>
BadKey == <<"bad", "-", "key">>

\* str.replace(old, new), token by token
Replace(key, old, new) ==
    [i \in DOMAIN key |-> IF key[i] = old THEN new ELSE key[i]]

Underscored(key) == Replace(key, "-", "_")

\* the zoom keys as a caller writes them: hyphen and underscore forms
ZoomKeyForms ==
    {MinZoomKey, MaxZoomKey, Underscored(MinZoomKey), Underscored(MaxZoomKey)}

\* keyword arguments are identifiers: the underscore forms
KwargKeys == {Underscored(MinZoomKey), Underscored(MaxZoomKey), Underscored(BadKey)}

-----------------------------------------------------------------------------
(* The ordered mapping behind the store (UserDict.data) *)

Has(d, k) == \E i \in DOMAIN d : d[i].k = k

Get(d, k) == d[CHOOSE i \in DOMAIN d : d[i].k = k].v

Keys(d) == {d[i].k : i \in DOMAIN d}

\* dict.__setitem__: a new key goes last, a present key keeps its place
Put(d, k, v) ==
    IF Has(d, k)
    THEN [i \in DOMAIN d |-> IF d[i].k = k THEN [k |-> k, v |-> v] ELSE d[i]]
    ELSE Append(d, [k |-> k, v |-> v])

-----------------------------------------------------------------------------
(* The settings documents (yaml): groups of entries; a line of the         *)
(* packaged document may be commented out.                                 *)

Entry(k, v, c) == [k |-> k, v |-> v, commented |-> c]

\* the packaged document, reduced: "force" is active, the zoom keys are
\* commented-out examples, and one group has no line at all
PackagedDoc ==
    << <<Entry(ForceKey, BoolV(TRUE), FALSE)>>,
       <<Entry(MinZoomKey, IntV(0), TRUE), Entry(MaxZoomKey, G, TRUE)>>,
       << >> >>

\* the override files of the model that hold a mapping; "braces" holds the
\* empty mapping {}
CfgFiles ==
    [ zoom |-> << <<Entry(MinZoomKey, IntV(1), FALSE),
                    Entry(MaxZoomKey, IntV(2), FALSE)>> >>,
      badzoom |-> << <<Entry(MinZoomKey, IntV(2), FALSE)>>,
                     <<Entry(MaxZoomKey, IntV(1), FALSE)>> >>,
      badkey |-> << <<Entry(ForceKey, BoolV(FALSE), FALSE),
                      Entry(BadKey, BoolV(TRUE), FALSE)>> >>,
      braces |-> << >> ]

\* the override files that hold no document: yaml.safe_load returns None
EmptyFiles == {"empty"}

\* Path(cfg_path).exists()
CfgExists(cfg_path) == cfg_path \in DOMAIN CfgFiles \cup EmptyFiles

\* the paths a caller passes: no path, a path to no file, and the files
CfgPaths ==
    {"None", "missing", "zoom", "badzoom", "badkey", "braces", "empty"}

\* the groups as yaml.safe_load returns them: read_all uncomments every line
\* (data.replace("  # ", "  ")); a group without an active line is None
LoadGroups(doc, read_all) ==
    [g \in DOMAIN doc |->
        SelectSeq(doc[g], LAMBDA e : read_all \/ ~e.commented)]

RECURSIVE UpdateAll(_, _)
\* dict.update(entries)
UpdateAll(d, entries) ==
    IF entries = << >> THEN d
    ELSE UpdateAll(Put(d, Head(entries).k, Head(entries).v), Tail(entries))

RECURSIVE ParseFrom(_, _)
ParseFrom(groups, flat) ==
    IF groups = << >> THEN flat
    ELSE ParseFrom(Tail(groups), UpdateAll(flat, Head(groups)))

\* TippecanoeSettings._parse_settings_dict: only the groups that are
\* mappings contribute (an empty group is None)
_parse_settings_dict(groups) == ParseFrom(groups, << >>)

\* TippecanoeSettings._read_yaml_config
_read_yaml_config(cfg_path, read_all) ==
    IF cfg_path = "None"
    THEN [err |-> "ok",
          flat |-> _parse_settings_dict(LoadGroups(PackagedDoc, read_all))]
    ELSE IF ~CfgExists(cfg_path)
    THEN [err |-> "FileNotFoundError", flat |-> << >>]
    ELSE IF cfg_path \in EmptyFiles
    THEN [err |-> "ValueError", flat |-> << >>]
    ELSE [err |-> "ok",
          flat |-> _parse_settings_dict(LoadGroups(CfgFiles[cfg_path], read_all))]

-----------------------------------------------------------------------------
(* TippecanoeSettings *)

\* __setitem__ without the check made when minimum-zoom is assigned
SetItemNoMinCheck(all, d, key, value) ==
    LET k == Replace(key, "_", "-") IN
    IF k \notin all
    THEN [data |-> d, err |-> "KeyError"]
    ELSE IF k = MaxZoomKey /\ PyNe(value, G) /\ Has(d, MinZoomKey)
            /\ ~PyOrdered(value, Get(d, MinZoomKey))
    THEN [data |-> d, err |-> "TypeError"]
    ELSE IF k = MaxZoomKey /\ PyNe(value, G) /\ Has(d, MinZoomKey)
            /\ PyLt(value, Get(d, MinZoomKey))
    THEN [data |-> d, err |-> "ValueError"]
    ELSE [data |-> Put(d, k, value), err |-> "ok"]

\* __setitem__ without the check made when maximum-zoom is assigned
SetItemNoMaxCheck(all, d, key, value) ==
    LET k == Replace(key, "_", "-") IN
    IF k \notin all
    THEN [data |-> d, err |-> "KeyError"]
    ELSE IF k = MinZoomKey /\ Has(d, MaxZoomKey) /\ PyNe(Get(d, MaxZoomKey), G)
            /\ ~PyOrdered(value, Get(d, MaxZoomKey))
    THEN [data |-> d, err |-> "TypeError"]
    ELSE IF k = MinZoomKey /\ Has(d, MaxZoomKey) /\ PyNe(Get(d, MaxZoomKey), G)
            /\ PyGt(value, Get(d, MaxZoomKey))
    THEN [data |-> d, err |-> "ValueError"]
    ELSE [data |-> Put(d, k, value), err |-> "ok"]

\* __setitem__ without the membership test against _all_settings
SetItemAnyKey(all, d, key, value) ==
    LET k == Replace(key, "_", "-") IN
    IF k = MaxZoomKey /\ PyNe(value, G) /\ Has(d, MinZoomKey)
            /\ PyOrdered(value, Get(d, MinZoomKey))
            /\ PyLt(value, Get(d, MinZoomKey))
    THEN [data |-> d, err |-> "ValueError"]
    ELSE IF k = MinZoomKey /\ Has(d, MaxZoomKey) /\ PyNe(Get(d, MaxZoomKey), G)
            /\ PyOrdered(value, Get(d, MaxZoomKey))
            /\ PyGt(value, Get(d, MaxZoomKey))
    THEN [data |-> d, err |-> "ValueError"]
    ELSE [data |-> Put(d, k, value), err |-> "ok"]

\* __setitem__ that widens maximum-zoom instead of refusing a minimum-zoom
\* above it
SetItemWidensMax(all, d, key, value) ==
    LET k == Replace(key, "_", "-") IN
    IF k \notin all
    THEN [data |-> d, err |-> "KeyError"]
    ELSE IF k = MaxZoomKey /\ PyNe(value, G) /\ Has(d, MinZoomKey)
            /\ ~PyOrdered(value, Get(d, MinZoomKey))
    THEN [data |-> d, err |-> "TypeError"]
    ELSE IF k = MaxZoomKey /\ PyNe(value, G) /\ Has(d, MinZoomKey)
            /\ PyLt(value, Get(d, MinZoomKey))
    THEN [data |-> d, err |-> "ValueError"]
    ELSE IF k = MinZoomKey /\ Has(d, MaxZoomKey) /\ PyNe(Get(d, MaxZoomKey), G)
            /\ ~PyOrdered(value, Get(d, MaxZoomKey))
    THEN [data |-> d, err |-> "TypeError"]
    ELSE IF k = MinZoomKey /\ Has(d, MaxZoomKey) /\ PyNe(Get(d, MaxZoomKey), G)
            /\ PyGt(value, Get(d, MaxZoomKey))
    THEN [data |-> Put(Put(d, MaxZoomKey, value), k, value), err |-> "ok"]
    ELSE [data |-> Put(d, k, value), err |-> "ok"]

\* __setitem__ that stores the value before it checks the zoom ordering
SetItemCommitsFirst(all, d, key, value) ==
    LET k == Replace(key, "_", "-") IN
    IF k \notin all
    THEN [data |-> d, err |-> "KeyError"]
    ELSE IF k = MaxZoomKey /\ PyNe(value, G) /\ Has(d, MinZoomKey)
            /\ ~PyOrdered(value, Get(d, MinZoomKey))
    THEN [data |-> d, err |-> "TypeError"]
    ELSE IF k = MaxZoomKey /\ PyNe(value, G) /\ Has(d, MinZoomKey)
            /\ PyLt(value, Get(d, MinZoomKey))
    THEN [data |-> Put(d, k, value), err |-> "ValueError"]
    ELSE IF k = MinZoomKey /\ Has(d, MaxZoomKey) /\ PyNe(Get(d, MaxZoomKey), G)
            /\ ~PyOrdered(value, Get(d, MaxZoomKey))
    THEN [data |-> d, err |-> "TypeError"]
    ELSE IF k = MinZoomKey /\ Has(d, MaxZoomKey) /\ PyNe(Get(d, MaxZoomKey), G)
            /\ PyGt(value, Get(d, MaxZoomKey))
    THEN [data |-> Put(d, k, value), err |-> "ValueError"]
    ELSE [data |-> Put(d, k, value), err |-> "ok"]

\* TippecanoeSettings.__setitem__
__setitem__(all, d, key, value) ==
    LET k == Replace(key, "_", "-") IN
    IF k \notin all
    THEN [data |-> d, err |-> "KeyError"]
    ELSE IF k = MaxZoomKey /\ PyNe(value, G) /\ Has(d, MinZoomKey)
            /\ ~PyOrdered(value, Get(d, MinZoomKey))
    THEN [data |-> d, err |-> "TypeError"]
    ELSE IF k = MaxZoomKey /\ PyNe(value, G) /\ Has(d, MinZoomKey)
            /\ PyLt(value, Get(d, MinZoomKey))
    THEN [data |-> d, err |-> "ValueError"]
    ELSE IF k = MinZoomKey /\ Has(d, MaxZoomKey) /\ PyNe(Get(d, MaxZoomKey), G)
            /\ ~PyOrdered(value, Get(d, MaxZoomKey))
    THEN [data |-> d, err |-> "TypeError"]
    ELSE IF k = MinZoomKey /\ Has(d, MaxZoomKey) /\ PyNe(Get(d, MaxZoomKey), G)
            /\ PyGt(value, Get(d, MaxZoomKey))
    THEN [data |-> d, err |-> "ValueError"]
    ELSE [data |-> Put(d, k, value), err |-> "ok"]

\* tc[key]: UserDict.__getitem__, which TippecanoeSettings does not override
__getitem__(d, key) ==
    IF Has(d, key) THEN [value |-> Get(d, key), err |-> "ok"]
    ELSE [value |-> Unset, err |-> "KeyError"]

RECURSIVE SetEach(_, _, _)
\* for k, v in pairs: self[k] = v   (the first failure ends the loop)
SetEach(all, d, pairs) ==
    IF pairs = << >> THEN [data |-> d, err |-> "ok"]
    ELSE LET r == __setitem__(all, d, Head(pairs).k, Head(pairs).v) IN
         IF r.err # "ok" THEN r ELSE SetEach(all, r.data, Tail(pairs))

\* override_settings that commits its pairs only if every one is accepted
OverrideAllOrNothing(all, d, kwargs) ==
    LET r == SetEach(all, d, kwargs) IN
    IF r.err # "ok" THEN [data |-> d, err |-> r.err] ELSE r

\* TippecanoeSettings.override_settings
override_settings(all, d, kwargs) == SetEach(all, d, kwargs)

\* TippecanoeSettings.__init__: the object exists only when err = "ok"
__init__(cfg_path, kwargs) ==
    LET all == Keys(_read_yaml_config("None", TRUE).flat)
        cfg == _read_yaml_config(cfg_path, FALSE)
        defaults == SetEach(all, << >>, cfg.flat)
    IN  IF cfg.err # "ok"
        THEN [all |-> all, data |-> << >>, err |-> cfg.err]
        ELSE IF defaults.err # "ok"
        THEN [all |-> all, data |-> defaults.data, err |-> defaults.err]
        ELSE [all |-> all] @@ SetEach(all, defaults.data, kwargs)

Pair(k, v) == [k |-> k, v |-> v]

\* the zoom levels a caller passes: the two ends of the range and the
\* sentinel
KwargZooms == {IntV(0), IntV(MaxZoom), G}

\* the keyword arguments of a call: up to MaxKwargs pairs with distinct names
KwargPairs ==
    {Pair(k, v) : k \in KwargKeys \ {Underscored(BadKey)}, v \in KwargZooms}
        \cup {Pair(Underscored(BadKey), BoolV(TRUE))}

\* the item assignments of the model: zoom levels under both key forms,
\* a boolean flag, and a key the schema does not know
ItemPairs ==
    {Pair(k, v) : k \in ZoomKeyForms, v \in KwargZooms}
        \cup {Pair(ForceKey, BoolV(b)) : b \in BOOLEAN}
        \cup {Pair(k, BoolV(TRUE)) : k \in {BadKey, Underscored(BadKey)}}

\* the keyword arguments of the calls made: the name the schema does not
\* know ends a call, so no pair is put after it
KwargSeqs ==
    {s : s \in UNION {{t \in [1..n -> KwargPairs] :
                /\ \A i, j \in 1..n : i # j => t[i].k # t[j].k
                /\ \A i \in 1..(n - 1) : t[i].k # Underscored(BadKey)} :
                    n \in 0..MaxKwargs}}

-----------------------------------------------------------------------------
(* Serialisation to command-line arguments *)

\* str(value)
PyStr(v) ==
    IF IsInt(v) THEN ToString(v.int)
    ELSE IF IsStr(v) THEN v.str
    ELSE IF v.bool THEN "True" ELSE "False"

RECURSIVE Join(_)
\* the name as one string
Join(name) == IF name = << >> THEN "" ELSE Head(name) \o Join(Tail(name))

\* convert_to_list_args that lists the newest key first
ArgsNewestFirst(d) ==
    LET kept == SelectSeq(d, LAMBDA e : ~(IsBool(e.v) /\ ~e.v.bool)) IN
    [i \in DOMAIN kept |->
        LET e == kept[Len(kept) + 1 - i] IN
        IF IsBool(e.v) THEN "--" \o Join(e.k)
        ELSE "--" \o Join(e.k) \o "=" \o PyStr(e.v)]

RECURSIVE convert_to_list_args(_)
\* TippecanoeSettings.convert_to_list_args, over self.items()
convert_to_list_args(d) ==
    IF d = << >> THEN << >>
    ELSE LET k == Head(d).k
             v == Head(d).v
         IN  (IF IsBool(v)
              THEN IF v.bool THEN <<"--" \o Join(k)>> ELSE << >>
              ELSE <<"--" \o Join(k) \o "=" \o PyStr(v)>>)
                \o convert_to_list_args(Tail(d))

RECURSIVE _convert_to_list_args(_)
\* FlatGeobuf._convert_to_list_args, over args.items()
_convert_to_list_args(args) ==
    IF args = << >> THEN << >>
    ELSE LET k == Head(args).k
             v == Head(args).v
         IN  (IF IsBool(v)
              THEN <<"--" \o Join(k)>>
              ELSE <<"--" \o Join(k) \o "=" \o PyStr(v)>>)
                \o _convert_to_list_args(Tail(args))

-----------------------------------------------------------------------------
(* The settings store: state after construction and its operations *)

\* TippecanoeSettings(): the packaged defaults, no keyword override
InitSettings ==
    /\ all_settings = __init__("None", << >>).all
    /\ data = __init__("None", << >>).data
    /\ last = [op |-> "init", cfg |-> "None", kwargs |-> << >>, err |-> "ok"]

\* tc = TippecanoeSettings(cfg_path, **kwargs); a constructor that raises
\* creates no object and the name keeps the store it had
Construct(cfg_path, kwargs) ==
    LET r == __init__(cfg_path, kwargs) IN
    /\ all_settings' = IF r.err = "ok" THEN r.all ELSE all_settings
    /\ data' = IF r.err = "ok" THEN r.data ELSE data
    /\ last' = [op |-> "init", cfg |-> cfg_path, kwargs |-> kwargs,
                err |-> r.err]
    /\ UNCHANGED converterVars

\* tc[key] = value
SetItem(key, value) ==
    LET r == __setitem__(all_settings, data, key, value) IN
    /\ data' = r.data
    /\ last' = [op |-> "setitem", key |-> key, value |-> value,
                err |-> r.err]
    /\ UNCHANGED <<all_settings, converterVars>>

\* tc.override_settings(**kwargs)
OverrideSettings(kwargs) ==
    LET r == override_settings(all_settings, data, kwargs) IN
    /\ data' = r.data
    /\ last' = [op |-> "override", kwargs |-> kwargs, err |-> r.err]
    /\ UNCHANGED <<all_settings, converterVars>>

\* tc.convert_to_list_args(): the list is built from self.items() and
\* returned
ConvertToListArgs ==
    /\ last' = [op |-> "args", args |-> convert_to_list_args(data), err |-> "ok"]
    /\ UNCHANGED <<all_settings, data, converterVars>>

-----------------------------------------------------------------------------
(* File names and paths: token sequences, "blocks.parquet" is              *)
(* <<"blocks", ".parquet">>; every file of a run lives in one directory.   *)

\* the names a converter is built for
InputNames ==
    { <<"blocks", ".parquet">>, <<"roads", ".fgb">>, <<"tiles", ".mbtiles">>,
      <<"final", ".pmtiles">>, <<"notes", ".txt">>, <<"a", ".fgb", ".parquet">>,
      <<"roads", ".FGB">> }

\* pathlib.Path.suffix and Path.stem
PathSuffix(p) == IF Len(p) > 1 THEN p[Len(p)] ELSE ""
PathStem(p) == IF Len(p) > 1 THEN SubSeq(p, 1, Len(p) - 1) ELSE p

\* str.endswith
EndsWith(name, suffix) == Len(name) > 1 /\ name[Len(name)] = suffix

\* name.replace(old, "")
Erase(name, old) == SelectSeq(name, LAMBDA t : t # old)

\* tempfile.mkstemp(suffix=...) in S3Storage.download_file
TmpPath(file_key) == <<"tmp", PathSuffix(file_key)>>

-----------------------------------------------------------------------------
(* GeoFile and its kinds *)

NoFile == [kind |-> "none"]     \* no object (the constructor raised)

ALLOWED_SUFFIXES == {".geojson", ".gpkg", ".parquet"}

File(kind, fpath, fname) ==
    [kind |-> kind, fpath |-> fpath, fname |-> fname,
     min_zoom |-> Unset, max_zoom |-> Unset, cfg_path |-> "None"]

\* the world a request acts on: local paths, uploaded names, the side effects
\* so far and the exception raised, if any
World(f, s, e) == [fs |-> f, s3 |-> s, events |-> e, err |-> "ok"]

Event(ev, tool, path, ok) ==
    [ev |-> ev, tool |-> tool, path |-> path, ok |-> ok, args |-> << >>]

Raise(w, err) == [w EXCEPT !.err = err]

\* a constructor without the allow-list of VectorFile
NewAnySuffix(w, kind, fpath) ==
    IF fpath \notin w.fs
    THEN [w |-> Raise(w, "FileNotFoundError"), file |-> NoFile]
    ELSE [w |-> w, file |-> File(kind, fpath, fpath)]

\* a constructor that validates the suffix before it looks for the file
NewChecksSuffixFirst(w, kind, fpath) ==
    IF kind = "VectorFile" /\ PathSuffix(fpath) \notin ALLOWED_SUFFIXES
    THEN [w |-> Raise(w, "ValueError"), file |-> NoFile]
    ELSE IF fpath \notin w.fs
    THEN [w |-> Raise(w, "FileNotFoundError"), file |-> NoFile]
    ELSE [w |-> w, file |-> File(kind, fpath, fpath)]

\* GeoFile.__post_init__ and VectorFile.__post_init__: cls(fpath_str)
New(w, kind, fpath) ==
    IF fpath \notin w.fs
    THEN [w |-> Raise(w, "FileNotFoundError"), file |-> NoFile]
    ELSE IF kind = "VectorFile" /\ PathSuffix(fpath) \notin ALLOWED_SUFFIXES
    THEN [w |-> Raise(w, "ValueError"), file |-> NoFile]
    ELSE [w |-> w, file |-> File(kind, fpath, fpath)]

\* the exit of an external converter: "ok" wrote the output, "nofile" exited
\* with status 0 without writing it, "fail" exited with a non-zero status
RunOutcomes == {"ok", "nofile", "fail"}

\* subprocess.run(args) without check=True: the exit status is ignored
RunUnchecked(w, tool, args, in, out, oc) ==
    LET exit == IF in \in w.fs THEN oc ELSE "fail" IN
    [w EXCEPT !.events = Append(@, [Event("run", tool, in, exit # "fail")
                                        EXCEPT !.args = args]),
              !.fs = IF exit = "ok" THEN @ \cup {out} ELSE @]

\* subprocess.run(args, check=True); a converter whose input is missing fails
Run(w, tool, args, in, out, oc) ==
    LET exit == IF in \in w.fs THEN oc ELSE "fail" IN
    [w EXCEPT !.events = Append(@, [Event("run", tool, in, exit # "fail")
                                        EXCEPT !.args = args]),
              !.fs = IF exit = "ok" THEN @ \cup {out} ELSE @,
              !.err = IF exit = "fail" THEN "CalledProcessError" ELSE "ok"]

\* GeoFile.upload
upload(w, self, ok) ==
    IF self.fpath \notin w.fs
    THEN Raise(w, "FileNotFoundError")
    ELSE [w EXCEPT !.events = Append(@, Event("upload", "", self.fpath, ok)),
                   !.s3 = IF ok THEN @ \cup {self.fname} ELSE @,
                   !.err = IF ok THEN "ok" ELSE "ClientError"]

\* GeoFile.write("") copies the file into the working directory
write(w, self, ok) ==
    IF self.fpath \notin w.fs
    THEN Raise(w, "FileNotFoundError")
    ELSE [w EXCEPT !.events = Append(@, Event("write", "", self.fpath, ok)),
                   !.err = IF ok THEN "ok" ELSE "OSError"]

\* GeoFile.remove: Path.unlink
remove(w, self) ==
    [w EXCEPT !.events = Append(@, Event("remove", "", self.fpath,
                                         self.fpath \in w.fs)),
              !.fs = @ \ {self.fpath},
              !.err = IF self.fpath \in w.fs THEN "ok" ELSE "FileNotFoundError"]

\* result.fname = fname, on the object a constructor returned
WithName(r, fname) ==
    IF r.w.err # "ok" THEN r
    ELSE [w |-> r.w, file |-> [r.file EXCEPT !.fname = fname]]

\* a result that is built without looking for the file at out_path
ConvertedUnchecked(w1, kind, out_path, fname) ==
    IF w1.err # "ok" THEN [w |-> w1, file |-> NoFile]
    ELSE [w |-> w1, file |-> File(kind, out_path, fname)]

\* result = cls(out_path); result.fname = fname, once the converter has run
\* in w1
Converted(w1, kind, out_path, fname) ==
    IF w1.err # "ok" THEN [w |-> w1, file |-> NoFile]
    ELSE WithName(New(w1, kind, out_path), fname)

\* VectorFile.convert
VectorFile_convert(w, self, oc) ==
    LET out_path == PathStem(self.fpath) \o <<".fgb">>
        ogr_args == <<"ogr2ogr", "-f", "FlatGeobuf", Join(out_path),
                      Join(self.fpath), "-progress">>
    IN  Converted(Run(w, "ogr2ogr", ogr_args, self.fpath, out_path, oc),
                  "FlatGeobuf", out_path,
                  Replace(self.fname, PathSuffix(self.fpath), ".fgb"))

\* hasattr(self, "min_zoom"), hasattr(self, "max_zoom")
HasAttr(v) == v # Unset

\* a >= b and a <= b
PyGe(a, b) == IF IsNum(a) /\ IsNum(b) THEN PyNum(a) >= PyNum(b) ELSE a = b
PyLe(a, b) == PyGe(b, a)

\* FlatGeobuf.min_zoom setter
set_min_zoom(self, value) ==
    IF HasAttr(self.max_zoom) /\ ~PyOrdered(value, self.max_zoom)
    THEN [file |-> self, err |-> "TypeError"]
    ELSE IF HasAttr(self.max_zoom) /\ PyGe(value, self.max_zoom)
    THEN [file |-> self, err |-> "ValueError"]
    ELSE [file |-> [self EXCEPT !.min_zoom = value], err |-> "ok"]

\* FlatGeobuf.max_zoom setter
set_max_zoom(self, value) ==
    IF HasAttr(self.min_zoom) /\ ~PyOrdered(value, self.min_zoom)
    THEN [file |-> self, err |-> "TypeError"]
    ELSE IF HasAttr(self.min_zoom) /\ PyLe(value, self.min_zoom)
    THEN [file |-> self, err |-> "ValueError"]
    ELSE [file |-> [self EXCEPT !.max_zoom = value], err |-> "ok"]

\* FlatGeobuf.set_zoom_levels
set_zoom_levels(self, min_zoom, max_zoom) ==
    LET r == set_min_zoom(self, min_zoom) IN
    IF r.err # "ok" THEN r ELSE set_max_zoom(r.file, max_zoom)

\* _get_result_fname that leaves the minimum zoom out of the name
ResultFnameMaxOnly(self) ==
    Erase(self.fname, ".fgb") \o <<"-", PyStr(self.max_zoom), ".mbtiles">>

\* FlatGeobuf._get_result_fname
_get_result_fname(self) ==
    Erase(self.fname, ".fgb")
        \o <<"-", PyStr(self.min_zoom), "-", PyStr(self.max_zoom), ".mbtiles">>

\* FlatGeobuf.cfg_path setter
set_cfg_path(self, path_str) ==
    IF ~CfgExists(path_str)
    THEN [file |-> self, err |-> "FileNotFoundError"]
    ELSE [file |-> [self EXCEPT !.cfg_path = path_str], err |-> "ok"]

\* FlatGeobuf._read_config: the active lines of the packaged document or of
\* the file at cfg_path; an empty document loads as None, which has no values()
_read_config(cfg_path) ==
    IF cfg_path = "None"
    THEN [err |-> "ok",
          flat |-> ParseFrom(LoadGroups(PackagedDoc, FALSE), << >>)]
    ELSE IF cfg_path \in EmptyFiles
    THEN [err |-> "AttributeError(NoneType)", flat |-> << >>]
    ELSE [err |-> "ok",
          flat |-> ParseFrom(LoadGroups(CfgFiles[cfg_path], FALSE), << >>)]

\* the command line FlatGeobuf.convert builds
tip_args(self, flat, out_path) ==
    <<"tippecanoe">> \o _convert_to_list_args(flat)
        \o <<"--minimum-zoom=" \o PyStr(self.min_zoom),
             "--maximum-zoom=" \o PyStr(self.max_zoom),
             "-o", Join(out_path), Join(self.fpath)>>

\* FlatGeobuf.convert that wraps its output as a PMTiles file
FlatGeobufConvertSkipsKind(w, self, oc) ==
    IF ~(HasAttr(self.min_zoom) /\ HasAttr(self.max_zoom))
    THEN [w |-> Raise(w, "AttributeError"), file |-> NoFile]
    ELSE
    LET cfg == _read_config(self.cfg_path)
        out_path == _get_result_fname(self)
    IN  IF cfg.err # "ok" THEN [w |-> Raise(w, cfg.err), file |-> NoFile]
        ELSE Converted(Run(w, "tippecanoe", tip_args(self, cfg.flat, out_path),
                           self.fpath, out_path, oc),
                       "PMTiles", out_path, out_path)

\* FlatGeobuf.convert
FlatGeobuf_convert(w, self, oc) ==
    IF ~(HasAttr(self.min_zoom) /\ HasAttr(self.max_zoom))
    THEN [w |-> Raise(w, "AttributeError"), file |-> NoFile]
    ELSE
    LET cfg == _read_config(self.cfg_path)
        out_path == _get_result_fname(self)
    IN  IF cfg.err # "ok" THEN [w |-> Raise(w, cfg.err), file |-> NoFile]
        ELSE Converted(Run(w, "tippecanoe", tip_args(self, cfg.flat, out_path),
                           self.fpath, out_path, oc),
                       "MBTiles", out_path, out_path)

\* MBTiles.convert
MBTiles_convert(w, self, oc) ==
    LET out_path == PathStem(self.fpath) \o <<".pmtiles">>
        pm_args == <<"./pmtiles", "convert", Join(self.fpath), Join(out_path)>>
    IN  Converted(Run(w, "pmtiles", pm_args, self.fpath, out_path, oc),
                  "PMTiles", out_path,
                  Replace(self.fname, ".mbtiles", ".pmtiles"))

\* PMTiles.convert
PMTiles_convert(w, self) ==
    [w |-> Raise(w, "NotImplementedError"), file |-> NoFile]

\* self.convert(), dispatched on the class of self
convert(w, self, oc) ==
    CASE self.kind = "VectorFile" -> VectorFile_convert(w, self, oc)
      [] self.kind = "FlatGeobuf" -> FlatGeobuf_convert(w, self, oc)
      [] self.kind = "MBTiles" -> MBTiles_convert(w, self, oc)
      [] self.kind = "PMTiles" -> PMTiles_convert(w, self)

-----------------------------------------------------------------------------
(* Converter *)

\* GeoFile.from_s3 with S3Storage.download_file: the temporary file is made
\* before the download is attempted
from_s3(w, kind, file_key, dl_ok) ==
    IF Len(file_key) < 2
    THEN [w |-> Raise(w, "ValueError"), file |-> NoFile]
    ELSE
    LET got == file_key \in w.s3 /\ dl_ok
        w1 == [w EXCEPT !.fs = @ \cup {TmpPath(file_key)},
                        !.events = Append(@, Event("download", "", file_key, got))]
    IN  IF ~got
        THEN [w |-> Raise(w1, "ClientError"), file |-> NoFile]
        ELSE WithName(New(w1, kind, TmpPath(file_key)), file_key)

\* Converter.load_file
load_file(w, origin_str, rem, dl_ok) ==
    LET kind == IF EndsWith(origin_str, ".fgb") THEN "FlatGeobuf"
                ELSE IF EndsWith(origin_str, ".mbtiles") THEN "MBTiles"
                ELSE IF EndsWith(origin_str, ".pmtiles") THEN "PMTiles"
                ELSE "VectorFile"
    IN  IF rem THEN from_s3(w, kind, origin_str, dl_ok)
        ELSE New(w, kind, origin_str)

NoKw == [none |-> TRUE]         \* convert() called without keyword arguments
Kw(min_zoom, max_zoom) == [min_zoom |-> min_zoom, max_zoom |-> max_zoom]

\* convert(min_zoom=0, max_zoom=MaxZoom, ...) with one more keyword: a name
\* suffix, a setting override
KwExtras ==
    {Kw(IntV(0), IntV(MaxZoom)) @@ [suffix |-> StrV("v2")],
     Kw(IntV(0), IntV(MaxZoom)) @@ [force |-> BoolV(TRUE)]}

\* the convert requests worth making on an origin: every file kind but
\* FlatGeobuf ignores the keyword arguments, and only a remote request whose
\* converter succeeded reaches the upload
ConvertTried(o, rem, kw, oc, up_ok) ==
    /\ o.kind # "FlatGeobuf" => kw \in {NoKw, Kw(IntV(0), G)} \cup KwExtras
    /\ ~up_ok => (rem /\ oc = "ok")

\* the single-step requests worth making on an origin: an origin that is
\* refused for its kind is refused whatever the zoom levels are
StepTried(o, min_zoom, max_zoom) ==
    o.kind # "VectorFile" => (min_zoom = IntV(0) /\ max_zoom \in {IntV(0), G})

Req(w, o, res) == [w |-> w, origin |-> o, result |-> res]

\* the request is over: one that raised returns nothing
Done(w, o, result) == Req(w, o, IF w.err = "ok" THEN result ELSE NoFile)

\* self.remove(), reached only if nothing was raised before it
ThenRemove(w, self) == IF w.err # "ok" THEN w ELSE remove(w, self)

\* self.upload(), reached only if nothing was raised before it
ThenUpload(w, self, ok) == IF w.err # "ok" THEN w ELSE upload(w, self, ok)

\* Converter.convert that removes the local copies before it uploads
ConvertRemovesFirst(c, o, rem, up_ok) ==
    IF c.w.err # "ok" \/ ~rem THEN Done(c.w, o, c.file)
    ELSE Done(ThenUpload(ThenRemove(remove(c.w, o), c.file), c.file, up_ok),
              o, c.file)

\* Converter.convert, from the result c of self.origin.convert(): in remote
\* mode result.upload(), self.origin.remove(), result.remove()
convert_result(c, o, rem, up_ok) ==
    IF c.w.err # "ok" \/ ~rem THEN Done(c.w, o, c.file)
    ELSE Done(ThenRemove(ThenRemove(upload(c.w, c.file, up_ok), o), c.file),
              o, c.file)

\* Converter.convert, from the outcome z of set_zoom_levels(**kwargs)
convert_origin(w, z, rem, oc, up_ok) ==
    IF z.err # "ok" THEN Req(Raise(w, z.err), z.file, NoFile)
    ELSE convert_result(convert(w, z.file, oc), z.file, rem, up_ok)

\* Converter.convert that passes its keyword arguments to set_zoom_levels
\* whatever the kind of the origin is
ConvertZoomsAnyKind(w, o, rem, kw, oc, up_ok) ==
    convert_origin(w,
                   IF DOMAIN kw # {"min_zoom", "max_zoom"}
                   THEN [file |-> o, err |-> "TypeError"]
                   ELSE set_zoom_levels(o, kw.min_zoom, kw.max_zoom),
                   rem, oc, up_ok)

\* Converter.convert(**kwargs)
Converter_convert(w, o, rem, kw, oc, up_ok) ==
    convert_origin(w,
                   IF o.kind # "FlatGeobuf" THEN [file |-> o, err |-> "ok"]
                   ELSE IF DOMAIN kw # {"min_zoom", "max_zoom"}
                   THEN [file |-> o, err |-> "TypeError"]
                   ELSE set_zoom_levels(o, kw.min_zoom, kw.max_zoom),
                   rem, oc, up_ok)

\* the two sides of the unresolved merge in single_step_convert:
\* pmtiles.write("") on HEAD, pmtiles.write() on 1290edd
Sides == {"HEAD", "1290edd"}

\* single_step_convert that removes the final artifact before it writes it
StepRemovesBeforeWrite(w2, pm, o, rem, ocs) ==
    IF w2.err # "ok" \/ ~rem THEN Done(w2, o, pm)
    ELSE Done(IF ocs.side = "HEAD" THEN write(remove(w2, pm), pm, ocs.copy)
              ELSE Raise(w2, "TypeError"),
              o, pm)

\* single_step_convert, once mbtiles.remove() has run in w2: in remote mode
\* pmtiles.write and pmtiles.remove()
step_remote(w2, pm, o, rem, ocs) ==
    IF w2.err # "ok" \/ ~rem THEN Done(w2, o, pm)
    ELSE Done(ThenRemove(IF ocs.side = "HEAD" THEN write(w2, pm, ocs.copy)
                         ELSE Raise(w2, "TypeError"), pm),
              o, pm)

\* single_step_convert, from the result c of mbtiles.convert():
\* mbtiles.remove()
step_pmtiles(c, mb, o, rem, ocs) ==
    IF c.w.err # "ok" THEN Done(c.w, o, NoFile)
    ELSE step_remote(remove(c.w, mb), c.file, o, rem, ocs)

\* mbtiles.convert(), reached only if nothing was raised before it
ThenConvert(w, self, oc) ==
    IF w.err # "ok" THEN [w |-> w, file |-> NoFile]
    ELSE MBTiles_convert(w, self, oc)

\* single_step_convert, from the result b of fgb.convert(): fgb.remove(),
\* pmtiles = mbtiles.convert()
step_mbtiles(b, fgb, o, rem, ocs) ==
    IF b.w.err # "ok" THEN Done(b.w, o, NoFile)
    ELSE step_pmtiles(ThenConvert(remove(b.w, fgb), b.file, ocs.pm),
                      b.file, o, rem, ocs)

\* single_step_convert that removes the FlatGeobuf file before converting it
SingleStepEagerRemove(w, z, o, rem, ocs) ==
    LET w1 == remove(w, z.file)
        b == FlatGeobuf_convert(w1, z.file, ocs.tip)
    IN  IF z.err # "ok" THEN Req(Raise(w, z.err), o, NoFile)
        ELSE IF w1.err # "ok" THEN Done(w1, o, NoFile)
        ELSE IF b.w.err # "ok" THEN Done(b.w, o, NoFile)
        ELSE step_pmtiles(MBTiles_convert(b.w, b.file, ocs.pm),
                          b.file, o, rem, ocs)

\* single_step_convert, from the outcome z of fgb.set_zoom_levels:
\* mbtiles = fgb.convert()
step_zoom(w, z, o, rem, ocs) ==
    IF z.err # "ok" THEN Req(Raise(w, z.err), o, NoFile)
    ELSE step_mbtiles(FlatGeobuf_convert(w, z.file, ocs.tip), z.file,
                      o, rem, ocs)

\* single_step_convert, from the result a of self.origin.convert():
\* fgb.set_zoom_levels(min_zoom, max_zoom)
step_fgb(a, o, rem, min_zoom, max_zoom, ocs) ==
    IF a.w.err # "ok" THEN Done(a.w, o, NoFile)
    ELSE step_zoom(a.w, set_zoom_levels(a.file, min_zoom, max_zoom),
                   o, rem, ocs)

\* single_step_convert without the test of the origin's class
SingleStepAnyKind(w, o, rem, min_zoom, max_zoom, ocs) ==
    step_fgb(VectorFile_convert(w, o, ocs.ogr), o, rem, min_zoom, max_zoom, ocs)

\* Converter.single_step_convert(min_zoom, max_zoom)
single_step_convert(w, o, rem, min_zoom, max_zoom, ocs) ==
    IF o.kind # "VectorFile"
    THEN Req(Raise(w, "NotImplementedError"), o, NoFile)
    ELSE step_fgb(VectorFile_convert(w, o, ocs.ogr), o, rem,
                  min_zoom, max_zoom, ocs)

\* converter.single_step_convert(min_zoom, max_zoom, **kwargs): the method
\* declares the two zoom levels only, so any other keyword fails the call
\* before its body runs
single_step_convert_kw(w, o, rem, min_zoom, max_zoom, kwargs, ocs) ==
    IF kwargs # << >> THEN Req(Raise(w, "TypeError"), o, NoFile)
    ELSE single_step_convert(w, o, rem, min_zoom, max_zoom, ocs)

\* what a request is remembered by: the operation, how many requests the
\* converter has served, the arguments, the exception the request ended with
\* and the file it produced; a construction is remembered by the name it was
\* made for and whether a file of that name existed, too
Outcome(op, n, min_zoom, max_zoom, r) ==
    [op |-> op, n |-> n, min_zoom |-> min_zoom, max_zoom |-> max_zoom,
     err |-> r.w.err, result |-> r.result]

\* the world in which a converter is built for origin_str: the file is on
\* the local disk (or in the bucket, in remote mode) or it is not
Begin(origin_str, rem, exists) ==
    World(IF exists /\ ~rem THEN {origin_str} ELSE {},
          IF exists /\ rem THEN {origin_str} ELSE {}, << >>)

\* Converter("blocks.parquet"): a local vector file that exists
InitConverter ==
    \E origin_str \in {<<"blocks", ".parquet">>}, rem \in {FALSE} :
        LET r == load_file(Begin(origin_str, rem, TRUE), origin_str, rem, TRUE) IN
        /\ r.w.err = "ok"
        /\ origin = r.file
        /\ remote = rem
        /\ fs = r.w.fs
        /\ s3 = r.w.s3
        /\ events = << >>
        /\ outcome = Outcome("new", 0, Unset, Unset, Req(r.w, r.file, r.file))
                        @@ [name |-> origin_str, exists |-> TRUE]

\* converter = Converter(origin_str, remote), in a fresh world.  The state
\* it leaves does not depend on the state it is built in, so it is built
\* before any call is made on the previous converter: building one later
\* reaches nothing else.  The download only matters to a remote converter
\* whose file is in the bucket.
NewConverter(origin_str, rem, exists, dl_ok) ==
    LET r == load_file(Begin(origin_str, rem, exists), origin_str, rem, dl_ok) IN
    /\ outcome.op = "new"
    /\ ~dl_ok => (rem /\ exists)
    /\ origin' = r.file
    /\ remote' = rem
    /\ fs' = r.w.fs
    /\ s3' = r.w.s3
    /\ events' = r.w.events
    /\ outcome' = Outcome("new", 0, Unset, Unset, Req(r.w, r.file, r.file))
                        @@ [name |-> origin_str, exists |-> exists]
    /\ UNCHANGED settingsVars

\* converter.convert(**kw)
Convert(kw, oc, up_ok) ==
    LET r == Converter_convert(World(fs, s3, << >>), origin, remote, kw, oc, up_ok) IN
    /\ origin # NoFile
    /\ outcome.n < MaxRequests
    /\ ConvertTried(origin, remote, kw, oc, up_ok)
    /\ origin' = r.origin
    /\ fs' = r.w.fs
    /\ s3' = r.w.s3
    /\ events' = r.w.events
    /\ outcome' = Outcome("convert", outcome.n + 1,
                          IF kw = NoKw THEN Unset ELSE kw.min_zoom,
                          IF kw = NoKw THEN Unset ELSE kw.max_zoom, r)
                        @@ [kw |-> kw]
    /\ UNCHANGED <<remote, settingsVars>>

\* converter.single_step_convert(min_zoom, max_zoom)
SingleStepConvert(min_zoom, max_zoom, ocs) ==
    LET r == single_step_convert(World(fs, s3, << >>), origin, remote,
                                 min_zoom, max_zoom, ocs) IN
    /\ origin # NoFile
    /\ outcome.n < MaxRequests
    /\ StepTried(origin, min_zoom, max_zoom)
    /\ origin' = r.origin
    /\ fs' = r.w.fs
    /\ s3' = r.w.s3
    /\ events' = r.w.events
    /\ outcome' = Outcome("single_step", outcome.n + 1, min_zoom, max_zoom, r)
    /\ UNCHANGED <<remote, settingsVars>>

\* converter.single_step_convert(min_zoom, max_zoom, **kwargs), with the
\* setting overrides of the caller as keyword arguments
SingleStepConvertWith(min_zoom, max_zoom, kwargs, ocs) ==
    LET r == single_step_convert_kw(World(fs, s3, << >>), origin, remote,
                                    min_zoom, max_zoom, kwargs, ocs) IN
    /\ origin # NoFile
    /\ outcome.n < MaxRequests
    /\ StepTried(origin, min_zoom, max_zoom)
    /\ origin' = r.origin
    /\ fs' = r.w.fs
    /\ s3' = r.w.s3
    /\ events' = r.w.events
    /\ outcome' = Outcome("single_step_kw", outcome.n + 1, min_zoom, max_zoom, r)
                        @@ [kwargs |-> kwargs]
    /\ UNCHANGED <<remote, settingsVars>>

\* origin.set_zoom_levels(min_zoom, max_zoom), on an Intermediate origin
SetZoomLevels(min_zoom, max_zoom) ==
    LET z == set_zoom_levels(origin, min_zoom, max_zoom) IN
    /\ origin # NoFile
    /\ origin.kind = "FlatGeobuf"
    /\ origin' = z.file
    /\ events' = << >>
    /\ outcome' = Outcome("set_zoom_levels", outcome.n, min_zoom, max_zoom,
                          Req(Raise(World(fs, s3, << >>), z.err), z.file, NoFile))
    /\ UNCHANGED <<remote, fs, s3, settingsVars>>

\* origin.cfg_path = path_str, on an Intermediate origin
SetCfgPath(path_str) ==
    LET z == set_cfg_path(origin, path_str) IN
    /\ origin # NoFile
    /\ origin.kind = "FlatGeobuf"
    /\ origin' = z.file
    /\ events' = << >>
    /\ outcome' = Outcome("set_cfg_path", outcome.n, origin.min_zoom,
                          origin.max_zoom,
                          Req(Raise(World(fs, s3, << >>), z.err), z.file, NoFile))
    /\ UNCHANGED <<remote, fs, s3, settingsVars>>

\* origin.convert(), called on the file itself
FileConvert(oc) ==
    LET r == convert(World(fs, s3, << >>), origin, oc) IN
    /\ origin # NoFile
    /\ outcome.n < MaxRequests
    /\ fs' = r.w.fs
    /\ s3' = r.w.s3
    /\ events' = r.w.events
    /\ outcome' = Outcome("file_convert", outcome.n + 1, origin.min_zoom,
                          origin.max_zoom, Req(r.w, origin, r.file))
    /\ UNCHANGED <<origin, remote, settingsVars>>

-----------------------------------------------------------------------------
(* The specifications *)

\* the zoom levels a request is made with: the two ends of the range and
\* the sentinel
KwArgs == {NoKw} \cup {Kw(a, b) : a, b \in KwargZooms} \cup KwExtras


\* the exits of the three converters of a single-step request, the side of
\* the merge that runs and whether the copy succeeds; at most one converter
\* misbehaves in a request
StepOutcomes ==
    {o \in [ogr : RunOutcomes, tip : RunOutcomes, pm : RunOutcomes,
            side : Sides, copy : BOOLEAN] :
        /\ Cardinality({t \in {"ogr", "tip", "pm"} : o[t] # "ok"}) <= 1
        /\ (o.side # "HEAD" => o.copy)}

\* the overrides passed along with a single-step request: one keyword
StepOverrides == {kwargs \in KwargSeqs : Len(kwargs) = 1}

\* a request in which every converter succeeds
AllOk == [ogr |-> "ok", tip |-> "ok", pm |-> "ok", side |-> "HEAD", copy |-> TRUE]

\* the arguments of the constructor: at most one keyword override, and none
\* with a file whose defaults already fail (they are applied first)
ConstructArgs ==
    {a : a \in {c \in [cfg_path : CfgPaths, kwargs : KwargSeqs] :
        /\ Len(c.kwargs) <= 1
        /\ (c.cfg_path \notin {"None", "zoom"} => c.kwargs = << >>)}}

Init ==
    /\ InitSettings
    /\ InitConverter

\* the settings store on its own
Next ==
    \/ \E c \in ConstructArgs : Construct(c.cfg_path, c.kwargs)
    \/ \E p \in ItemPairs : SetItem(p.k, p.v)
    \/ \E kwargs \in KwargSeqs : OverrideSettings(kwargs)
    \/ ConvertToListArgs

Spec == Init /\ [][Next]_vars

\* the file kinds and the converter on their own
NextConv ==
    \/ \E origin_str \in InputNames, rem, exists, dl_ok \in BOOLEAN :
            NewConverter(origin_str, rem, exists, dl_ok)
    \/ \E kw \in KwArgs, oc \in RunOutcomes, up_ok \in BOOLEAN :
            Convert(kw, oc, up_ok)
    \/ \E min_zoom, max_zoom \in KwargZooms, ocs \in StepOutcomes :
            SingleStepConvert(min_zoom, max_zoom, ocs)
    \/ \E min_zoom, max_zoom \in KwargZooms, kwargs \in StepOverrides :
            SingleStepConvertWith(min_zoom, max_zoom, kwargs, AllOk)
    \/ \E min_zoom, max_zoom \in KwargZooms : SetZoomLevels(min_zoom, max_zoom)
    \/ \E path_str \in CfgPaths \ {"None"} : SetCfgPath(path_str)
    \/ \E oc \in RunOutcomes : FileConvert(oc)

SpecConv == Init /\ [][NextConv]_vars

-----
(* The settings store: properties *)

\* C1: whenever the store holds both minimum-zoom and maximum-zoom and
\* maximum-zoom is not the sentinel "g", the stored minimum-zoom is at most
\* the stored maximum-zoom, after any construction, item assignment or
\* override_settings call, successful or failing.
ZoomsOrdered ==
    (Has(data, MinZoomKey) /\ Has(data, MaxZoomKey) /\ Get(data, MaxZoomKey) # G)
        => /\ IsNum(Get(data, MinZoomKey)) /\ IsNum(Get(data, MaxZoomKey))
           /\ PyNum(Get(data, MinZoomKey)) <= PyNum(Get(data, MaxZoomKey))

\* a call was rejected for its zoom ordering while both zoom levels are stored
ZoomsOrderedWitness ==
    /\ last.op = "setitem" /\ last.err = "ValueError"
    /\ Has(data, MinZoomKey) /\ Has(data, MaxZoomKey)
    /\ Get(data, MaxZoomKey) # G

\* every key of every line of the packaged document, commented out or not
SchemaKeys ==
    UNION {{PackagedDoc[g][i].k : i \in DOMAIN PackagedDoc[g]} :
                g \in DOMAIN PackagedDoc}

\* C2: every key the store holds is a recognized key, the recognized set
\* is the whole schema (the keys that are commented out by default too) and
\* stays that set, and an item assignment under a key outside it fails
\* with KeyError.
KeysRecognized ==
    /\ Keys(data) \subseteq all_settings
    /\ all_settings = SchemaKeys
    /\ (last.op = "setitem" /\ Replace(last.key, "_", "-") \notin SchemaKeys)
            => last.err = "KeyError"

\* an unknown key was assigned, and a key that is not active by default is held
KeysRecognizedWitness ==
    /\ last.op = "setitem"
    /\ Replace(last.key, "_", "-") = BadKey
    /\ Has(data, MaxZoomKey)

\* C3: on a store that holds exactly one of the two zoom keys, assigning the
\* other one so that minimum > maximum (maximum not "g") raises ValueError,
\* whichever key came first; the first of the two assignments is accepted;
\* with maximum "g" every minimum is accepted, in either order.
ZoomPairRejected ==
    [][last'.op = "setitem" =>
        LET k == Replace(last'.key, "_", "-")
            v == last'.value
        IN  /\ (k \in {MinZoomKey, MaxZoomKey}
                 /\ ~Has(data, MinZoomKey) /\ ~Has(data, MaxZoomKey))
                    => last'.err = "ok" /\ Get(data', k) = v
            /\ (k = MaxZoomKey /\ Has(data, MinZoomKey) /\ ~Has(data, MaxZoomKey)
                 /\ IsInt(v) /\ IsInt(Get(data, MinZoomKey))
                 /\ Get(data, MinZoomKey).int > v.int)
                    => last'.err = "ValueError"
            /\ (k = MinZoomKey /\ Has(data, MaxZoomKey) /\ ~Has(data, MinZoomKey)
                 /\ IsInt(v) /\ IsInt(Get(data, MaxZoomKey))
                 /\ v.int > Get(data, MaxZoomKey).int)
                    => last'.err = "ValueError"
            /\ (k = MaxZoomKey /\ Has(data, MinZoomKey) /\ ~Has(data, MaxZoomKey)
                 /\ v = G)
                    => last'.err = "ok" /\ Get(data', MaxZoomKey) = G
            /\ (k = MinZoomKey /\ Has(data, MaxZoomKey) /\ ~Has(data, MinZoomKey)
                 /\ Get(data, MaxZoomKey) = G)
                    => last'.err = "ok" /\ Get(data', MinZoomKey) = v
    ]_vars

\* maximum-zoom was assigned below the only zoom key stored, minimum-zoom,
\* and the assignment was rejected
ZoomPairRejectedWitness ==
    /\ last.op = "setitem"
    /\ Replace(last.key, "_", "-") = MaxZoomKey
    /\ last.err = "ValueError"
    /\ Has(data, MinZoomKey) /\ ~Has(data, MaxZoomKey)

-----------------------------------------------------------------------------
(* File kinds and the converter: properties *)

\* the external converters a request invoked, in order
Tools(ev) ==
    LET runs == SelectSeq(ev, LAMBDA e : e.ev = "run") IN
    [i \in DOMAIN runs |-> runs[i].tool]

\* the kind that follows a kind in VectorSource -> Intermediate ->
\* TileArchive -> FinalArchive
NextKind(kind) ==
    CASE kind = "VectorFile" -> "FlatGeobuf"
      [] kind = "FlatGeobuf" -> "MBTiles"
      [] kind = "MBTiles" -> "PMTiles"
      [] OTHER -> "none"

\* the name ends with -<min_zoom>-<max_zoom><suffix>
EmbedsZooms(name, min_zoom, max_zoom, suffix) ==
    /\ Len(name) > 5
    /\ SubSeq(name, Len(name) - 4, Len(name))
            = <<"-", PyStr(min_zoom), "-", PyStr(max_zoom), suffix>>

ZoomsRequired ==
    /\ (outcome.op = "file_convert" /\ origin.kind = "FlatGeobuf") =>
            IF HasAttr(origin.min_zoom) /\ HasAttr(origin.max_zoom)
            THEN /\ outcome.err # "AttributeError"
                 /\ _read_config(origin.cfg_path).err = "ok" =>
                        Tools(events) = <<"tippecanoe">>
                 /\ outcome.err = "ok" =>
                        EmbedsZooms(outcome.result.fname, origin.min_zoom,
                                    origin.max_zoom, ".mbtiles")
            ELSE /\ outcome.err = "AttributeError"
                 /\ outcome.result = NoFile
                 /\ events = << >>
    /\ (outcome.op = "convert" /\ origin.kind = "FlatGeobuf"
            /\ outcome.err = "ok") =>
            EmbedsZooms(outcome.result.fname, outcome.min_zoom,
                        outcome.max_zoom, ".mbtiles")

\* an Intermediate file with both zoom levels set was converted
ZoomsRequiredWitness ==
    /\ outcome.op = "file_convert" /\ origin.kind = "FlatGeobuf"
    /\ HasAttr(origin.min_zoom) /\ HasAttr(origin.max_zoom)
    /\ outcome.err = "ok"

\* an Intermediate file was refused for lack of zoom levels
ZoomsMissingWitness ==
    /\ outcome.op = "file_convert" /\ origin.kind = "FlatGeobuf"
    /\ outcome.err = "AttributeError"

\* C6: a single_step_convert of a VectorFile that succeeds has invoked
\* ogr2ogr, tippecanoe and pmtiles, in this order and nothing else, and its
\* result is a PMTiles file named <input stem>-<min_zoom>-<max_zoom>.pmtiles.
SingleStepVector ==
    (outcome.op = "single_step" /\ origin.kind = "VectorFile"
        /\ outcome.err = "ok") =>
        /\ Tools(events) = <<"ogr2ogr", "tippecanoe", "pmtiles">>
        /\ outcome.result.kind = "PMTiles"
        /\ Join(outcome.result.fname)
                = Join(PathStem(origin.fname)) \o "-" \o PyStr(outcome.min_zoom)
                    \o "-" \o PyStr(outcome.max_zoom) \o ".pmtiles"

\* C7: a single_step_convert of a FlatGeobuf file is not refused as an
\* unsupported start; when it succeeds it has invoked tippecanoe and
\* pmtiles and no ogr2ogr, and it accepts "g" as maximum zoom.
SingleStepIntermediate ==
    (outcome.op = "single_step" /\ origin.kind = "FlatGeobuf") =>
        /\ outcome.err # "NotImplementedError"
        /\ outcome.max_zoom = G => outcome.err # "TypeError"
        /\ outcome.err = "ok" => Tools(events) = <<"tippecanoe", "pmtiles">>

UploadThenRemove ==
    outcome.op = "convert" =>
        /\ \A i \in DOMAIN events : events[i].ev = "remove" =>
                \E j \in 1..(i - 1) : events[j].ev = "upload" /\ events[j].ok
        /\ (remote /\ outcome.err = "ok") =>
                /\ Len(events) = 4
                /\ events[2] = Event("upload", "", outcome.result.fpath, TRUE)
                /\ events[3] = Event("remove", "", origin.fpath, TRUE)
                /\ events[4] = Event("remove", "", outcome.result.fpath, TRUE)
                /\ outcome.result.fname \in s3
                /\ origin.fpath \notin fs /\ outcome.result.fpath \notin fs
        /\ ~remote =>
                /\ \A i \in DOMAIN events : events[i].ev = "run"
                /\ outcome.err = "ok" =>
                        origin.fpath \in fs /\ outcome.result.fpath \in fs

\* a remote convert uploaded its result and removed both local copies
UploadThenRemoveWitness ==
    /\ outcome.op = "convert" /\ remote /\ outcome.err = "ok"
    /\ Len(events) = 4

\* the upload of a remote convert failed
UploadFailedWitness ==
    /\ outcome.op = "convert" /\ remote /\ outcome.err = "ClientError"

IsIntermediate(path) == PathSuffix(path) \in {".fgb", ".mbtiles"}

\* C10: in single_step_convert an intermediate artifact (the FlatGeobuf
\* file, the MBTiles file) is removed only after the converter that reads
\* it has exited successfully, and when the request succeeds each of the
\* two has been removed exactly once and is gone.
IntermediatesRemoved ==
    outcome.op = "single_step" =>
        /\ \A i \in DOMAIN events :
                (events[i].ev = "remove" /\ IsIntermediate(events[i].path)) =>
                    \E j \in 1..(i - 1) :
                        /\ events[j].ev = "run" /\ events[j].ok
                        /\ events[j].path = events[i].path
        /\ outcome.err = "ok" =>
                \A suffix \in {".fgb", ".mbtiles"} :
                    LET removals == {i \in DOMAIN events :
                            /\ events[i].ev = "remove"
                            /\ PathSuffix(events[i].path) = suffix}
                    IN  /\ Cardinality(removals) = 1
                        /\ \A i \in removals :
                                events[i].ok /\ events[i].path \notin fs

\* a single-step request ran to its end
IntermediatesRemovedWitness ==
    /\ outcome.op = "single_step" /\ outcome.err = "ok"
    /\ Len(events) >= 5

\* the uploads of a request, as indices into its side effects
Uploads(ev) == {i \in DOMAIN ev : ev[i].ev = "upload"}

\* C11: single_step_convert never uploads an intermediate artifact; in
\* remote mode a request that succeeds has uploaded the final artifact
\* exactly once and has then removed the local copies of the origin and of
\* the final artifact; in local mode it uploads nothing and the final
\* artifact stays on disk.
FinalUploadedOnce ==
    outcome.op = "single_step" =>
        /\ \A i \in Uploads(events) : ~IsIntermediate(events[i].path)
        /\ (remote /\ outcome.err = "ok") =>
                /\ Cardinality(Uploads(events)) = 1
                /\ \A i \in Uploads(events) :
                        /\ events[i] = Event("upload", "", outcome.result.fpath, TRUE)
                        /\ \A p \in {origin.fpath, outcome.result.fpath} :
                                \E j \in (i + 1)..Len(events) :
                                    events[j] = Event("remove", "", p, TRUE)
                /\ outcome.result.fname \in s3
                /\ origin.fpath \notin fs /\ outcome.result.fpath \notin fs
        /\ ~remote =>
                /\ Uploads(events) = {}
                /\ outcome.err = "ok" => outcome.result.fpath \in fs

-----------------------------------------------------------------------------
(* The settings store: assignment and lookup *)

\* C12: an item assignment that succeeds stores the value under the
\* recognized (hyphenated) key, so that reading that key right after returns
\* the value, and it leaves every other key of the store, and its value, as
\* it was.
SetThenGet ==
    [][(last'.op = "setitem" /\ last'.err = "ok") =>
        LET k == Replace(last'.key, "_", "-") IN
        /\ k \in all_settings
        /\ __getitem__(data', k) = [value |-> last'.value, err |-> "ok"]
        /\ Keys(data') = Keys(data) \cup {k}
        /\ \A other \in Keys(data) \ {k} :
                __getitem__(data', other) = __getitem__(data, other)
    ]_vars

\* minimum-zoom was assigned on a store that holds two other keys
SetThenGetWitness ==
    /\ last.op = "setitem" /\ last.err = "ok"
    /\ Replace(last.key, "_", "-") = MinZoomKey
    /\ Get(data, MinZoomKey) = last.value
    /\ Has(data, MaxZoomKey) /\ Has(data, ForceKey)

\* C13: an item assignment under the underscore form or the hyphen form of
\* a key stores the value under the hyphenated key, and a lookup under
\* either form, the one the assignment used included, returns the value.
KeyFormsEquivalent ==
    (last.op = "setitem" /\ last.err = "ok") =>
        LET k == Replace(last.key, "_", "-") IN
        /\ Has(data, k) /\ Get(data, k) = last.value
        /\ \A form \in {k, Underscored(k), last.key} :
                __getitem__(data, form) = [value |-> last.value, err |-> "ok"]

-----------------------------------------------------------------------------
(* Serialisation: properties *)

\* the settings tokens of a mapping: --key for a true flag, nothing for a
\* false flag, --key=value for any other value, in the order of the mapping
ExpectedTokens(flat) ==
    LET kept == SelectSeq(flat, LAMBDA e : ~(IsBool(e.v) /\ ~e.v.bool)) IN
    [i \in DOMAIN kept |->
        IF IsBool(kept[i].v) THEN "--" \o Join(kept[i].k)
        ELSE "--" \o Join(kept[i].k) \o "=" \o PyStr(kept[i].v)]

\* the settings a tile-building run was made with: a single-step request
\* builds its own Intermediate file, which reads the packaged document
RunSettings ==
    _read_config(IF outcome.op = "single_step" THEN "None"
                 ELSE origin.cfg_path).flat

\* C14: the serialized argument list of the store, and the one handed to
\* tippecanoe by FlatGeobuf.convert (between the program name and the five
\* trailing zoom and path arguments), holds --key for every true flag,
\* nothing for a false flag, --key=value for every other setting, and no
\* other settings token.
ArgsSerialized ==
    /\ convert_to_list_args(data) = ExpectedTokens(data)
    /\ \A i \in DOMAIN events :
            (events[i].ev = "run" /\ events[i].tool = "tippecanoe") =>
                /\ Len(events[i].args) >= 6
                /\ SubSeq(events[i].args, 2, Len(events[i].args) - 5)
                        = ExpectedTokens(RunSettings)

\* the store on its own serializes as claimed
StoreSerialized == convert_to_list_args(data) = ExpectedTokens(data)

-----------------------------------------------------------------------------
(* Construction of the settings store: properties *)

\* the active settings of the packaged document, and those of an override file
Baseline == ParseFrom(LoadGroups(PackagedDoc, FALSE), << >>)
OverrideFile(cfg) ==
    IF cfg = "None" \/ cfg \notin DOMAIN CfgFiles THEN << >>
    ELSE ParseFrom(LoadGroups(CfgFiles[cfg], FALSE), << >>)

\* C15: a store constructed from an override file and keyword overrides
\* holds, for each key, the keyword's value when one is given, otherwise
\* the override file's value when the file defines the key, otherwise the
\* packaged baseline's value when the baseline defines it, and nothing else.
LayersMerged ==
    (last.op = "init" /\ last.err = "ok") =>
        \A k \in all_settings :
            LET kw == {i \in DOMAIN last.kwargs :
                            Replace(last.kwargs[i].k, "_", "-") = k}
            IN  IF kw # {}
                THEN Has(data, k) /\ \A i \in kw : Get(data, k) = last.kwargs[i].v
                ELSE IF Has(OverrideFile(last.cfg), k)
                THEN Has(data, k) /\ Get(data, k) = Get(OverrideFile(last.cfg), k)
                ELSE IF Has(Baseline, k)
                THEN Has(data, k) /\ Get(data, k) = Get(Baseline, k)
                ELSE ~Has(data, k)

-----------------------------------------------------------------------------
(* Construction of a file: properties *)

\* C16: constructing a file of any kind for a local path that does not
\* exist raises FileNotFoundError, also when the suffix is unsupported as
\* well, creates no object, and downloads, uploads, runs, writes and removes
\* nothing.
MissingFileNotFound ==
    (outcome.op = "new" /\ ~remote /\ ~outcome.exists) =>
        /\ outcome.err = "FileNotFoundError"
        /\ origin = NoFile /\ outcome.result = NoFile
        /\ events = << >>
        /\ fs = {} /\ s3 = {}

\* a file with an unsupported suffix that does not exist was asked for
MissingFileNotFoundWitness ==
    /\ outcome.op = "new" /\ ~remote /\ ~outcome.exists
    /\ PathSuffix(outcome.name) = ".txt"
    /\ outcome.err = "FileNotFoundError"

\* the file a construction was made for was there to be opened: on the
\* local disk, or downloaded from the bucket
Available ==
    IF remote THEN events # << >> /\ events[1].ev = "download" /\ events[1].ok
    ELSE outcome.exists

\* the suffixes of the three kinds that are not vector sources
KindSuffixes == {".fgb", ".mbtiles", ".pmtiles"}

\* C17: a VectorFile exists only with a suffix of the allow-list (geojson,
\* gpkg, parquet); constructing one for a file that is there with any
\* other suffix raises ValueError, and a name whose suffix is that of no
\* kind is constructed as a VectorFile and fails with that ValueError.
VectorSuffixAllowed ==
    /\ (origin # NoFile /\ origin.kind = "VectorFile") =>
            PathSuffix(origin.fpath) \in {".geojson", ".gpkg", ".parquet"}
    /\ (outcome.op = "new" /\ Available
            /\ PathSuffix(outcome.name) \notin KindSuffixes) =>
            IF PathSuffix(outcome.name) \in {".geojson", ".gpkg", ".parquet"}
            THEN outcome.err = "ok" /\ origin.kind = "VectorFile"
            ELSE outcome.err = "ValueError" /\ origin = NoFile

\* a text file that exists was refused
VectorSuffixAllowedWitness ==
    /\ outcome.op = "new" /\ Available
    /\ PathSuffix(outcome.name) = ".txt"
    /\ outcome.err = "ValueError"

\* str.lower(), on the suffixes of the model
Lower(suffix) == IF suffix = ".FGB" THEN ".fgb" ELSE suffix

\* the kind a lower-cased suffix stands for
KindOfSuffix(suffix) ==
    CASE suffix = ".fgb" -> "FlatGeobuf"
      [] suffix = ".mbtiles" -> "MBTiles"
      [] suffix = ".pmtiles" -> "PMTiles"
      [] OTHER -> "VectorFile"

\* C18: the kind a name is classified as depends only on its lower-cased
\* suffix (.fgb FlatGeobuf, .mbtiles MBTiles, .pmtiles PMTiles), in local
\* and in remote mode, so a name that differs from another only in the
\* letter case of its extension is given the same kind.
SuffixDecidesKind ==
    (outcome.op = "new" /\ Available
        /\ Lower(PathSuffix(outcome.name)) \in KindSuffixes) =>
        /\ outcome.err = "ok"
        /\ origin.kind = KindOfSuffix(Lower(PathSuffix(outcome.name)))

\* the same, for the names whose extension is written in lower case
SuffixDecidesKindAsWritten ==
    (outcome.op = "new" /\ Available
        /\ PathSuffix(outcome.name) \in KindSuffixes) =>
        /\ outcome.err = "ok"
        /\ origin.kind = KindOfSuffix(PathSuffix(outcome.name))

-----------------------------------------------------------------------------
(* External converters: properties *)

\* C19: when an external converter exits with a non-zero status the request
\* ends there with CalledProcessError: the failed run is the last side
\* effect (no retry, no later converter, no upload, no removal) and no file
\* is returned; no converter runs twice in a request.
NonZeroExitFatal ==
    /\ \A i \in DOMAIN events :
            (events[i].ev = "run" /\ ~events[i].ok) =>
                /\ i = Len(events)
                /\ outcome.err = "CalledProcessError"
                /\ outcome.result = NoFile
    /\ \A i, j \in DOMAIN events :
            (events[i].ev = "run" /\ events[j].ev = "run"
                /\ events[i].tool = events[j].tool) => i = j

\* tippecanoe failed in the middle of a single-step request
NonZeroExitFatalWitness ==
    /\ outcome.op = "single_step"
    /\ Len(events) = 2
    /\ events[2].ev = "run" /\ events[2].tool = "tippecanoe" /\ ~events[2].ok

\* the document of an override file has no group: the file is empty, or
\* it holds the empty mapping
NoGroups(cfg) ==
    cfg \in EmptyFiles \/ (cfg \in DOMAIN CfgFiles /\ CfgFiles[cfg] = << >>)

\* C20: constructing the store with an override path that does not exist
\* raises FileNotFoundError, constructing it from a file whose document
\* has no groups raises ValueError, and in both cases no store is made (the
\* store there was is left as it is).
ConfigErrors ==
    [][last'.op = "init" =>
        /\ (last'.cfg # "None" /\ ~CfgExists(last'.cfg)) =>
                last'.err = "FileNotFoundError"
        /\ (last'.cfg # "None" /\ CfgExists(last'.cfg) /\ NoGroups(last'.cfg)) =>
                last'.err = "ValueError"
        /\ last'.err \in {"FileNotFoundError", "ValueError"} =>
                data' = data /\ all_settings' = all_settings
    ]_vars

\* the same, for a file that holds no document at all
ConfigErrorsEmptyFile ==
    [][last'.op = "init" =>
        /\ (last'.cfg # "None" /\ ~CfgExists(last'.cfg)) =>
                last'.err = "FileNotFoundError"
        /\ last'.cfg \in EmptyFiles => last'.err = "ValueError"
        /\ last'.err \in {"FileNotFoundError", "ValueError"} =>
                data' = data /\ all_settings' = all_settings
    ]_vars

-----------------------------------------------------------------------------
(* Requests that end in an error: properties *)

\* the exceptions of validation and state: a zoom ordering violated
\* (ValueError), a setting that is not known (KeyError), zoom levels that
\* were never set (AttributeError), a conversion that does not exist
\* (NotImplementedError)
ValidationErrors ==
    {"ValueError", "KeyError", "AttributeError", "NotImplementedError"}

\* C21: a convert or single_step_convert request that ends in a validation
\* or state error has invoked no external converter.
NoRunBeforeRejection ==
    (outcome.op \in {"convert", "single_step"}
        /\ outcome.err \in ValidationErrors)
            => Tools(events) = << >>

\* the same, for convert requests alone
ConvertNoRunBeforeRejection ==
    (outcome.op = "convert" /\ outcome.err \in ValidationErrors)
        => Tools(events) = << >>

-----------------------------------------------------------------------------
(* Zoom levels of an Intermediate file: properties *)

\* C22: set_zoom_levels(min, max) with two integers succeeds exactly when
\* min <= max, whatever zoom levels the file held before, and a call that
\* fails leaves both stored zoom levels as they were.
ZoomLevelsAtomic ==
    [][(outcome'.op = "set_zoom_levels"
            /\ IsInt(outcome'.min_zoom) /\ IsInt(outcome'.max_zoom)) =>
        /\ outcome'.err = "ok"
                <=> outcome'.min_zoom.int <= outcome'.max_zoom.int
        /\ outcome'.err # "ok" =>
                /\ origin'.min_zoom = origin.min_zoom
                /\ origin'.max_zoom = origin.max_zoom
    ]_vars

\* the part of it the code keeps: a pair with min > max is refused on a
\* file that holds no zoom level, and an accepted pair is stored
ZoomLevelsChecked ==
    [][(outcome'.op = "set_zoom_levels"
            /\ IsInt(outcome'.min_zoom) /\ IsInt(outcome'.max_zoom)) =>
        /\ (~HasAttr(origin.min_zoom) /\ ~HasAttr(origin.max_zoom)
                /\ outcome'.min_zoom.int > outcome'.max_zoom.int)
                    => outcome'.err = "ValueError"
        /\ outcome'.err = "ok" =>
                /\ origin'.min_zoom = outcome'.min_zoom
                /\ origin'.max_zoom = outcome'.max_zoom
    ]_vars

-----------------------------------------------------------------------------
(* Overrides passed with a request: properties *)

\* the tokens of the tippecanoe invocation of a request, << >> if there
\* was none
TipArgs(ev) ==
    LET runs == SelectSeq(ev, LAMBDA e : e.ev = "run" /\ e.tool = "tippecanoe")
    IN  IF runs = << >> THEN << >> ELSE runs[1].args

\* the token sequence holds the token
HasToken(tokens, t) == \E i \in DOMAIN tokens : tokens[i] = t

\* C23: a single-step request whose overrides hold minimum-zoom or
\* maximum-zoom builds the tiles with the overriding value, and names its
\* output after it, whatever min_zoom and max_zoom it was called with.
ExplicitOverridesWin ==
    (outcome.op = "single_step_kw" /\ origin.kind = "VectorFile") =>
        \A i \in DOMAIN outcome.kwargs :
            LET k == Replace(outcome.kwargs[i].k, "_", "-")
                v == outcome.kwargs[i].v
            IN  k \in {MinZoomKey, MaxZoomKey} =>
                    /\ HasToken(TipArgs(events),
                                "--" \o Join(k) \o "=" \o PyStr(v))
                    /\ outcome.result # NoFile
                    /\ HasToken(outcome.result.fname, PyStr(v))

\* what the code does with a single-step request that carries an override:
\* it raises TypeError and runs nothing
OverridesRefused ==
    outcome.op = "single_step_kw" =>
        /\ outcome.err = "TypeError"
        /\ events = << >>
        /\ outcome.result = NoFile

\* the converter runs of a request
Runs(ev) == SelectSeq(ev, LAMBDA e : e.ev = "run")

-----------------------------------------------------------------------------
(* override_settings and failing assignments: properties *)

RECURSIVE AssignedInTurn(_, _, _, _)
\* tc[k] = v made for the first n pairs, one by one, up to the first that
\* fails: the store they leave, how the last one made ended and how many
\* were accepted
AssignedInTurn(all, d, pairs, n) ==
    IF n = 0 THEN [data |-> d, err |-> "ok", done |-> 0]
    ELSE LET p == AssignedInTurn(all, d, pairs, n - 1)
             r == __setitem__(all, p.data, pairs[n].k, pairs[n].v)
         IN  IF p.err # "ok" THEN p
             ELSE IF r.err # "ok" THEN [data |-> p.data, err |-> r.err, done |-> n - 1]
             ELSE [data |-> r.data, err |-> "ok", done |-> n]

\* C25: override_settings(**updates) does what the item assignments of its
\* pairs do one after another in their order: when all succeed the store is
\* the one they leave; when one fails the call raises its error, the pairs
\* before it stay committed and that pair and the ones after it are not
\* applied.  The value of every pair that was applied is the one stored
\* (the names of one call are distinct), whatever an earlier call stored.
OverrideIsAssignments ==
    [][last'.op = "override" =>
        LET ks == last'.kwargs
            a == AssignedInTurn(all_settings, data, ks, Len(ks))
        IN  /\ last'.err = a.err
            /\ data' = a.data
            /\ a.err = "ok" <=> a.done = Len(ks)
            /\ \A i \in 1..a.done :
                    Get(data', Replace(ks[i].k, "_", "-")) = ks[i].v
    ]_vars

\* an override of two pairs failed at its first pair, a minimum above the
\* stored maximum, and its second pair, a maximum that is always accepted,
\* was not applied
OverrideIsAssignmentsWitness ==
    /\ last.op = "override" /\ last.err = "ValueError"
    /\ Len(last.kwargs) = 2
    /\ last.kwargs[1] = Pair(Underscored(MinZoomKey), IntV(MaxZoom))
    /\ last.kwargs[2] = Pair(Underscored(MaxZoomKey), G)
    /\ Has(data, MaxZoomKey) /\ Get(data, MaxZoomKey) = IntV(0)

-----------------------------------------------------------------------------
(* The name of a tile archive: properties *)

\* the keyword arguments hold both zoom levels and at most a suffix token
ZoomsAndSuffix(kw) ==
    /\ {"min_zoom", "max_zoom"} \subseteq DOMAIN kw
    /\ DOMAIN kw \subseteq {"min_zoom", "max_zoom", "suffix"}
    /\ IsInt(kw.min_zoom) /\ IsInt(kw.max_zoom)

\* the tokens a suffix token adds to the name
SuffixTokens(kw) ==
    IF "suffix" \in DOMAIN kw THEN <<"-", kw.suffix.str>> ELSE << >>

\* C26: a convert request on a FlatGeobuf origin may carry a suffix token
\* besides its zoom levels, and the MBTiles file it produces is named
\* stem-min-max, then -token when one was given, then .mbtiles.
ArchiveNamed ==
    (outcome.op = "convert" /\ origin.kind = "FlatGeobuf"
        /\ ZoomsAndSuffix(outcome.kw)) =>
            /\ outcome.err # "TypeError"
            /\ outcome.err = "ok" =>
                outcome.result.fname
                    = PathStem(origin.fname)
                        \o <<"-", PyStr(outcome.kw.min_zoom),
                             "-", PyStr(outcome.kw.max_zoom)>>
                        \o SuffixTokens(outcome.kw) \o <<".mbtiles">>

\* the same for the requests that carry no suffix token
ArchiveNamedNoSuffix ==
    (outcome.op = "convert" /\ origin.kind = "FlatGeobuf"
        /\ DOMAIN outcome.kw = {"min_zoom", "max_zoom"}
        /\ outcome.err = "ok") =>
            outcome.result.fname
                = PathStem(origin.fname)
                    \o <<"-", PyStr(outcome.kw.min_zoom),
                         "-", PyStr(outcome.kw.max_zoom), ".mbtiles">>

-----------------------------------------------------------------------------
(* Serialisation: purity and order *)

\* the mapping without one key
Without(d, k) == SelectSeq(d, LAMBDA e : e.k # k)

\* C27: convert_to_list_args leaves the store as it is and returns the
\* tokens of the settings in the order the keys were inserted; two calls
\* with nothing in between return the same list; an accepted assignment to
\* a key that is present keeps the tokens of the other keys in their order,
\* and a new key's token goes last.
ArgsOrderStable ==
    [][/\ last'.op = "args" =>
            /\ data' = data
            /\ last'.args = ExpectedTokens(data)
            /\ last.op = "args" => last'.args = last.args
       /\ (last'.op = "setitem" /\ last'.err = "ok") =>
            LET k == Replace(last'.key, "_", "-") IN
            /\ convert_to_list_args(Without(data', k))
                    = convert_to_list_args(Without(data, k))
            /\ Has(data, k) =>
                    \A i \in DOMAIN data : (data[i].k = k) <=> (data'[i].k = k)
            /\ ~Has(data, k) =>
                    convert_to_list_args(data')
                        = convert_to_list_args(data)
                            \o ExpectedTokens(<<[k |-> k, v |-> last'.value]>>)
    ]_vars

\* the store was serialized after force, the first of three keys, was set
\* to false: its token is gone and the zoom tokens are in place
ArgsOrderStableWitness ==
    /\ last.op = "args"
    /\ Len(data) = 3
    /\ data[1] = [k |-> ForceKey, v |-> BoolV(FALSE)]
    /\ Len(last.args) = 2

-----------------------------------------------------------------------------
(* Failing assignments: properties *)

\* C28: an item assignment that fails, for an unknown key or for a zoom
\* level on the wrong side of the stored counterpart, leaves the store and
\* the recognized keys exactly as they were.
FailedAssignmentKeepsStore ==
    [][(last'.op = "setitem" /\ last'.err # "ok") =>
            /\ data' = data
            /\ all_settings' = all_settings
    ]_vars

\* a zoom level was refused against its stored counterpart, and the store
\* holds another value under the key that was assigned
FailedAssignmentKeepsStoreWitness ==
    /\ last.op = "setitem" /\ last.err = "ValueError"
    /\ Has(data, Replace(last.key, "_", "-"))
    /\ Get(data, Replace(last.key, "_", "-")) # last.value

-----------------------------------------------------------------------------
(* Converter: local copies are used before they are removed *)

ConverterRequests == {"convert", "single_step", "single_step_kw"}

\* C29: within one request of Converter.convert or single_step_convert, in
\* local and in remote mode, nothing converts, uploads, writes or removes a
\* path after the request has removed it: no side effect names a path that
\* an earlier removal named, no removal finds its file missing, and the
\* only file a request finds missing is an output that a converter exited
\* without writing.
UsedBeforeRemoved ==
    outcome.op \in ConverterRequests =>
        /\ \A i, j \in DOMAIN events :
                (i < j /\ events[i].ev = "remove") =>
                    events[j].path # events[i].path
        /\ \A i \in DOMAIN events : events[i].ev = "remove" => events[i].ok
        /\ outcome.err = "FileNotFoundError" =>
                /\ events # << >>
                /\ events[Len(events)].ev = "run" /\ events[Len(events)].ok

\* a remote single-step request wrote the final artifact and removed three
\* local copies, each of them once
UsedBeforeRemovedWitness ==
    /\ outcome.op = "single_step" /\ outcome.err = "ok" /\ remote
    /\ \E i \in DOMAIN events : events[i].ev = "write" /\ events[i].ok
    /\ Cardinality({events[i].path : i \in {j \in DOMAIN events :
                                            events[j].ev = "remove"}}) = 3

\* a remote request of Converter.convert uploaded its result and removed
\* the two local copies
UsedBeforeRemovedConvert ==
    /\ outcome.op = "convert" /\ outcome.err = "ok" /\ remote
    /\ Cardinality({i \in DOMAIN events : events[i].ev = "remove"}) = 2

-----------------------------------------------------------------------------
(* Convert steps: the result exists when it is returned *)

\* the requests whose result is what a convert step returned: convert()
\* called on the file itself, and the requests of a local converter, which
\* removes nothing after its last step
EndsWithConvertStep ==
    \/ outcome.op = "file_convert"
    \/ outcome.op \in ConverterRequests /\ ~remote

\* the requests that are one convert step and nothing else
IsConvertStep ==
    \/ outcome.op = "file_convert"
    \/ outcome.op = "convert" /\ ~remote

\* the last converter of the request exited with status 0
LastRunSucceeded ==
    /\ events # << >>
    /\ events[Len(events)].ev = "run" /\ events[Len(events)].ok

\* C30: a file object returned by a convert step names a path that exists
\* when it is returned, and it is built only after the converter has
\* exited with status 0; a step whose converter exited with status 0 and
\* that returns no object has failed with FileNotFoundError.
ResultExists ==
    EndsWithConvertStep =>
        /\ outcome.result # NoFile =>
                /\ outcome.err = "ok"
                /\ outcome.result.fpath \in fs
                /\ IsConvertStep => LastRunSucceeded
        /\ (IsConvertStep /\ LastRunSucceeded /\ outcome.result = NoFile) =>
                outcome.err = "FileNotFoundError"

\* a converter exited with status 0 without writing its output, and the
\* step raised FileNotFoundError
ResultExistsWitness ==
    /\ outcome.op = "file_convert"
    /\ LastRunSucceeded
    /\ outcome.result = NoFile /\ outcome.err = "FileNotFoundError"

\* a step returned a file object, and its path is on the disk
ResultExistsReturned ==
    /\ outcome.op = "file_convert"
    /\ outcome.result # NoFile /\ outcome.result.fpath \in fs

====
